---- MODULE Spec2Model ----
(***************************************************************************)
(* Model of the estafette cloud-function extension: the Params struct of   *)
(* params.go with its two methods SetDefaults and                          *)
(* ValidateRequiredProperties, and the driver (func main) that resolves    *)
(* the parameters and runs the gcloud commands.                            *)
(*                                                                         *)
(* Go strings are TLA+ strings, Go ints are integers (the values used stay *)
(* far inside 64 bits), a Go error is its message string, a Go slice is a  *)
(* sequence, and a Go map is a set of <<key, value>> pairs with unique     *)
(* keys together with a nil flag.                                          *)
(***************************************************************************)
EXTENDS Integers, Sequences, FiniteSets, TLC

(***************************************************************************)
(* Bounds of the model.                                                    *)
(***************************************************************************)
\* how many method calls one test of the Params methods makes
MaxCalls == 2
\* how far below 1 and above 540 the swept timeoutSeconds inputs reach
SweepMargin == 3

(***************************************************************************)
(* Program constants (params.go).                                          *)
(***************************************************************************)
DefaultTimeoutSeconds == 60
MaxTimeoutSeconds == 540

supportedRuntimes == <<"nodejs8", "nodejs10", "python37", "go111">>
supportedMemory == <<"128MB", "256MB", "512MB", "1024MB", "2048MB">>
supportedTrigger == <<"http", "bucket">>
supportedIngressSettings == <<"all", "internal-only">>

(***************************************************************************)
(* A Go map[string]interface{}: nil or a set of key/value pairs.           *)
(***************************************************************************)
NilMap == [nil |-> TRUE, kv |-> {}]
MakeMap(pairs) == [nil |-> FALSE, kv |-> pairs]

\* the zero value of the Params struct
ZeroParams ==
  [ DryRun |-> FALSE, App |-> "", Runtime |-> "", Trigger |-> "",
    TriggerValue |-> "", Memory |-> "", ServiceAccount |-> "", Source |-> "",
    IngressSettings |-> "", TimeoutSeconds |-> 0,
    EnvironmentVariables |-> NilMap ]

(***************************************************************************)
(* strings.Join(array, sep)                                                *)
(***************************************************************************)
RECURSIVE Join(_, _)
Join(array, sep) ==
  IF Len(array) = 0 THEN ""
  ELSE IF Len(array) = 1 THEN array[1]
  ELSE array[1] \o sep \o Join(Tail(array), sep)

(***************************************************************************)
(* func inStringArray(value string, array []string) bool                   *)
(***************************************************************************)
RECURSIVE inStringArrayFrom(_, _, _)
inStringArrayFrom(value, array, i) ==
  IF i > Len(array) THEN FALSE
  ELSE IF array[i] = value THEN TRUE
  ELSE inStringArrayFrom(value, array, i + 1)

\* faulty variant: the loop stops one element early
inStringArraySkipsLast(value, array) ==
  \E i \in 1..(Len(array) - 1) : array[i] = value

inStringArray(value, array) == inStringArrayFrom(value, array, 1)

(***************************************************************************)
(* func (p *Params) SetDefaults(gitName, appLabel, buildVersion,           *)
(*   releaseName, releaseAction string, estafetteLabels map[string]string) *)
(* The result is the struct p points to after the call.                    *)
(***************************************************************************)
\* faulty variant: the git name wins over the app label
SetDefaultsGitNameFirst(p, gitName, appLabel, buildVersion, releaseName, releaseAction, estafetteLabels) ==
  LET p1 == IF p.App = "" /\ gitName # "" THEN [p EXCEPT !.App = gitName] ELSE p
      p2 == IF p1.App = "" /\ appLabel # "" THEN [p1 EXCEPT !.App = appLabel] ELSE p1
      p3 == IF p2.Trigger = "" THEN [p2 EXCEPT !.Trigger = "http"] ELSE p2
      p4 == IF p3.Memory = "" THEN [p3 EXCEPT !.Memory = "256MB"] ELSE p3
      p5 == IF p4.Source = "" THEN [p4 EXCEPT !.Source = "."] ELSE p4
      p6 == IF p5.TimeoutSeconds <= 0
            THEN [p5 EXCEPT !.TimeoutSeconds = DefaultTimeoutSeconds] ELSE p5
      p7 == IF p6.IngressSettings = "" THEN [p6 EXCEPT !.IngressSettings = "all"] ELSE p6
  IN p7

\* faulty variant: memory and timeout are defaulted whenever they are not supported
SetDefaultsOverwrites(p, gitName, appLabel, buildVersion, releaseName, releaseAction, estafetteLabels) ==
  LET p1 == IF p.App = "" /\ appLabel = "" /\ gitName # ""
            THEN [p EXCEPT !.App = gitName] ELSE p
      p2 == IF p1.App = "" /\ appLabel # "" THEN [p1 EXCEPT !.App = appLabel] ELSE p1
      p3 == IF p2.Trigger = "" THEN [p2 EXCEPT !.Trigger = "http"] ELSE p2
      p4 == IF ~inStringArray(p3.Memory, supportedMemory)
            THEN [p3 EXCEPT !.Memory = "256MB"] ELSE p3
      p5 == IF p4.Source = "" THEN [p4 EXCEPT !.Source = "."] ELSE p4
      p6 == IF p5.TimeoutSeconds <= 0 \/ p5.TimeoutSeconds > MaxTimeoutSeconds
            THEN [p5 EXCEPT !.TimeoutSeconds = DefaultTimeoutSeconds] ELSE p5
      p7 == IF p6.IngressSettings = "" THEN [p6 EXCEPT !.IngressSettings = "all"] ELSE p6
  IN p7

\* faulty variant: only a negative timeout is defaulted, and the source is left empty
SetDefaultsIncomplete(p, gitName, appLabel, buildVersion, releaseName, releaseAction, estafetteLabels) ==
  LET p1 == IF p.App = "" /\ appLabel = "" /\ gitName # ""
            THEN [p EXCEPT !.App = gitName] ELSE p
      p2 == IF p1.App = "" /\ appLabel # "" THEN [p1 EXCEPT !.App = appLabel] ELSE p1
      p3 == IF p2.Trigger = "" THEN [p2 EXCEPT !.Trigger = "http"] ELSE p2
      p4 == IF p3.Memory = "" THEN [p3 EXCEPT !.Memory = "256MB"] ELSE p3
      p6 == IF p4.TimeoutSeconds < 0
            THEN [p4 EXCEPT !.TimeoutSeconds = DefaultTimeoutSeconds] ELSE p4
      p7 == IF p6.IngressSettings = "" THEN [p6 EXCEPT !.IngressSettings = "all"] ELSE p6
  IN p7

\* faulty variant: the memory default hangs on the trigger default as an else-if
SetDefaultsElseIf(p, gitName, appLabel, buildVersion, releaseName, releaseAction, estafetteLabels) ==
  LET p1 == IF p.App = "" /\ appLabel = "" /\ gitName # ""
            THEN [p EXCEPT !.App = gitName] ELSE p
      p2 == IF p1.App = "" /\ appLabel # "" THEN [p1 EXCEPT !.App = appLabel] ELSE p1
      p4 == IF p2.Trigger = "" THEN [p2 EXCEPT !.Trigger = "http"]
            ELSE IF p2.Memory = "" THEN [p2 EXCEPT !.Memory = "256MB"] ELSE p2
      p5 == IF p4.Source = "" THEN [p4 EXCEPT !.Source = "."] ELSE p4
      p6 == IF p5.TimeoutSeconds <= 0
            THEN [p5 EXCEPT !.TimeoutSeconds = DefaultTimeoutSeconds] ELSE p5
      p7 == IF p6.IngressSettings = "" THEN [p6 EXCEPT !.IngressSettings = "all"] ELSE p6
  IN p7

\* faulty variant: the memory default is misspelled
SetDefaultsMemoryTypo(p, gitName, appLabel, buildVersion, releaseName, releaseAction, estafetteLabels) ==
  LET p1 == IF p.App = "" /\ appLabel = "" /\ gitName # ""
            THEN [p EXCEPT !.App = gitName] ELSE p
      p2 == IF p1.App = "" /\ appLabel # "" THEN [p1 EXCEPT !.App = appLabel] ELSE p1
      p3 == IF p2.Trigger = "" THEN [p2 EXCEPT !.Trigger = "http"] ELSE p2
      p4 == IF p3.Memory = "" THEN [p3 EXCEPT !.Memory = "256Mb"] ELSE p3
      p5 == IF p4.Source = "" THEN [p4 EXCEPT !.Source = "."] ELSE p4
      p6 == IF p5.TimeoutSeconds <= 0
            THEN [p5 EXCEPT !.TimeoutSeconds = DefaultTimeoutSeconds] ELSE p5
      p7 == IF p6.IngressSettings = "" THEN [p6 EXCEPT !.IngressSettings = "all"] ELSE p6
  IN p7

\* faulty variant: the release name and the app label of the labels are
\* further sources of the app name, and a dry run is forced without a version
SetDefaultsUsesRelease(p, gitName, appLabel, buildVersion, releaseName, releaseAction, estafetteLabels) ==
  LET p0 == IF p.App = "" /\ releaseName # "" THEN [p EXCEPT !.App = releaseName] ELSE p
      p1 == IF p0.App = "" /\ appLabel = "" /\ gitName # ""
            THEN [p0 EXCEPT !.App = gitName] ELSE p0
      p2 == IF p1.App = "" /\ appLabel # "" THEN [p1 EXCEPT !.App = appLabel] ELSE p1
      p3 == IF p2.Trigger = "" THEN [p2 EXCEPT !.Trigger = "http"] ELSE p2
      p4 == IF p3.Memory = "" THEN [p3 EXCEPT !.Memory = "256MB"] ELSE p3
      p5 == IF p4.Source = "" THEN [p4 EXCEPT !.Source = "."] ELSE p4
      p6 == IF p5.TimeoutSeconds <= 0
            THEN [p5 EXCEPT !.TimeoutSeconds = DefaultTimeoutSeconds] ELSE p5
      p7 == IF p6.IngressSettings = "" THEN [p6 EXCEPT !.IngressSettings = "all"] ELSE p6
      p8 == IF buildVersion = "" THEN [p7 EXCEPT !.DryRun = TRUE] ELSE p7
  IN p8

SetDefaults(p, gitName, appLabel, buildVersion, releaseName, releaseAction, estafetteLabels) ==
  LET \* default app to estafette app label if no override in stage params
      p1 == IF p.App = "" /\ appLabel = "" /\ gitName # ""
            THEN [p EXCEPT !.App = gitName] ELSE p
      p2 == IF p1.App = "" /\ appLabel # "" THEN [p1 EXCEPT !.App = appLabel] ELSE p1
      \* default trigger to http-trigger
      p3 == IF p2.Trigger = "" THEN [p2 EXCEPT !.Trigger = "http"] ELSE p2
      \* default memory to 256MB
      p4 == IF p3.Memory = "" THEN [p3 EXCEPT !.Memory = "256MB"] ELSE p3
      \* default source to current directory
      p5 == IF p4.Source = "" THEN [p4 EXCEPT !.Source = "."] ELSE p4
      \* default timeout to 60 seconds
      p6 == IF p5.TimeoutSeconds <= 0
            THEN [p5 EXCEPT !.TimeoutSeconds = DefaultTimeoutSeconds] ELSE p5
      \* default ingress-settings to all
      p7 == IF p6.IngressSettings = "" THEN [p6 EXCEPT !.IngressSettings = "all"] ELSE p6
  IN p7

(***************************************************************************)
(* strconv / fmt: the decimal text of an int, as fmt's %v prints it.       *)
(***************************************************************************)
Digits == <<"0", "1", "2", "3", "4", "5", "6", "7", "8", "9">>

RECURSIVE FormatNat(_)
FormatNat(n) ==
  IF n < 10 THEN Digits[n + 1] ELSE FormatNat(n \div 10) \o Digits[(n % 10) + 1]

FormatInt(n) == IF n < 0 THEN "-" \o FormatNat(0 - n) ELSE FormatNat(n)

(***************************************************************************)
(* func (p *Params) ValidateRequiredProperties() (bool, []error, []string) *)
(* Each check takes the errors collected so far and returns them with its  *)
(* own violation appended when the check fails.                            *)
(***************************************************************************)
\* if !inStringArray(p.Runtime, supportedRuntimes) { errors = append(...) }
checkRuntime(p, errors) ==
  IF ~inStringArray(p.Runtime, supportedRuntimes)
  THEN Append(errors, "Runtime " \o p.Runtime \o " is not supported; set it to "
                      \o Join(supportedRuntimes, ", "))
  ELSE errors

\* if !inStringArray(p.Memory, supportedMemory) { errors = append(...) }
checkMemory(p, errors) ==
  IF ~inStringArray(p.Memory, supportedMemory)
  THEN Append(errors, "Memory " \o p.Memory \o " is not supported; set it to "
                      \o Join(supportedMemory, ", "))
  ELSE errors

\* if !inStringArray(p.Trigger, supportedTrigger) { errors = append(...) }
checkTrigger(p, errors) ==
  IF ~inStringArray(p.Trigger, supportedTrigger)
  THEN Append(errors, "Trigger " \o p.Trigger \o " is not supported; set it to "
                      \o Join(supportedTrigger, ", "))
  ELSE errors

\* faulty variant: the trigger value is required for every trigger
checkTriggerValueAlways(p, errors) ==
  IF p.TriggerValue = ""
  THEN Append(errors, "TriggerValue is required when Trigger is bucket; set TriggerValue as well")
  ELSE errors

\* if p.Trigger == "bucket" && p.TriggerValue == "" { errors = append(...) }
checkTriggerValue(p, errors) ==
  IF p.Trigger = "bucket" /\ p.TriggerValue = ""
  THEN Append(errors, "TriggerValue is required when Trigger is bucket; set TriggerValue as well")
  ELSE errors

\* faulty variant: there is no upper bound
checkTimeoutNoUpperBound(p, errors) ==
  IF p.TimeoutSeconds <= 0
  THEN Append(errors, "Timeout " \o p.Memory
                      \o " is not supported; set it between 0 and 540 seconds")
  ELSE errors

\* faulty variant: the upper bound is exclusive
checkTimeoutExclusive(p, errors) ==
  IF p.TimeoutSeconds <= 0 \/ p.TimeoutSeconds >= MaxTimeoutSeconds
  THEN Append(errors, "Timeout " \o p.Memory
                      \o " is not supported; set it between 0 and 540 seconds")
  ELSE errors

\* faulty variant: the message formats the timeout
checkTimeoutFormatsTimeout(p, errors) ==
  IF p.TimeoutSeconds <= 0 \/ p.TimeoutSeconds > MaxTimeoutSeconds
  THEN Append(errors, "Timeout " \o FormatInt(p.TimeoutSeconds)
                      \o " is not supported; set it between 0 and 540 seconds")
  ELSE errors

\* if p.TimeoutSeconds <= 0 || p.TimeoutSeconds > 540 { errors = append(...) }
\* (the value the message formats is p.Memory)
checkTimeout(p, errors) ==
  IF p.TimeoutSeconds <= 0 \/ p.TimeoutSeconds > MaxTimeoutSeconds
  THEN Append(errors, "Timeout " \o p.Memory
                      \o " is not supported; set it between 0 and 540 seconds")
  ELSE errors

\* if !inStringArray(p.IngressSettings, supportedIngressSettings) { ... }
checkIngressSettings(p, errors) ==
  IF ~inStringArray(p.IngressSettings, supportedIngressSettings)
  THEN Append(errors, "IngressSettings " \o p.IngressSettings
                      \o " is not supported; set it to "
                      \o Join(supportedIngressSettings, ", "))
  ELSE errors

\* faulty variant: validation stops at the first violation
ValidateShortCircuit(p) ==
  LET e1 == checkRuntime(p, << >>)
      e2 == IF Len(e1) > 0 THEN e1 ELSE checkMemory(p, e1)
      e3 == IF Len(e2) > 0 THEN e2 ELSE checkTrigger(p, e2)
      e4 == IF Len(e3) > 0 THEN e3 ELSE checkTriggerValue(p, e3)
      e5 == IF Len(e4) > 0 THEN e4 ELSE checkTimeout(p, e4)
      e6 == IF Len(e5) > 0 THEN e5 ELSE checkIngressSettings(p, e5)
  IN << Len(e6) = 0, e6, << >> >>

\* faulty variant: a single violation is tolerated
ValidateToleratesOne(p) ==
  LET errors == checkIngressSettings(p, checkTimeout(p, checkTriggerValue(p,
                  checkTrigger(p, checkMemory(p, checkRuntime(p, << >>))))))
  IN << Len(errors) <= 1, errors, << >> >>

\* faulty variant: the ingress violation is filed as a warning
ValidateWarnsIngress(p) ==
  LET errors == checkTimeout(p, checkTriggerValue(p,
                  checkTrigger(p, checkMemory(p, checkRuntime(p, << >>)))))
      warnings == checkIngressSettings(p, << >>)
  IN << Len(errors) = 0, errors, warnings >>

\* faulty variant: an empty App is a violation
ValidateRequiresApp(p) ==
  LET errors0 == IF p.App = "" THEN << "App is required; set it" >> ELSE << >>
      errors == checkIngressSettings(p, checkTimeout(p, checkTriggerValue(p,
                  checkTrigger(p, checkMemory(p, checkRuntime(p, errors0))))))
  IN << Len(errors) = 0, errors, << >> >>

\* faulty variant: the ingress settings are checked first
ValidateIngressFirst(p) ==
  LET errors == checkTimeout(p, checkTriggerValue(p, checkTrigger(p,
                  checkMemory(p, checkRuntime(p, checkIngressSettings(p, << >>))))))
  IN << Len(errors) = 0, errors, << >> >>

\* returns the triple (valid, errors, warnings)
ValidateRequiredProperties(p) ==
  LET errors0 == << >>
      warnings == << >>
      errors1 == checkRuntime(p, errors0)
      errors2 == checkMemory(p, errors1)
      errors3 == checkTrigger(p, errors2)
      errors4 == checkTriggerValue(p, errors3)
      errors5 == checkTimeout(p, errors4)
      errors6 == checkIngressSettings(p, errors5)
  IN << Len(errors6) = 0, errors6, warnings >>

(***************************************************************************)
(* The value of a label is a sequence of one-character strings, so that    *)
(* sanitizeLabel can look at its characters.                               *)
(***************************************************************************)
LowerChars == {"a", "b", "c", "d", "e", "f", "g", "h", "i", "j", "k", "l", "m",
               "n", "o", "p", "q", "r", "s", "t", "u", "v", "w", "x", "y", "z"}
UpperChars == {"A", "B", "C", "D", "E", "F", "G", "H", "I", "J", "K", "L", "M",
               "N", "O", "P", "Q", "R", "S", "T", "U", "V", "W", "X", "Y", "Z"}
DigitChars == {"0", "1", "2", "3", "4", "5", "6", "7", "8", "9"}
AlphanumericChars == LowerChars \cup UpperChars \cup DigitChars
\* the characters the class [a-zA-Z0-9-_.] matches
LabelChars == AlphanumericChars \cup {"-", "_", "."}
\* the characters the class [-_.] matches
SeparatorChars == {"-", "_", "."}

MaxLabelLength == 63

\* the string made of the characters of chars
RECURSIVE StringOf(_)
StringOf(chars) == IF Len(chars) = 0 THEN "" ELSE Head(chars) \o StringOf(Tail(chars))

\* regexp `[^a-zA-Z0-9-_.]+` ReplaceAllString(value, "-"): every maximal run
\* of characters outside the class becomes one hyphen
RECURSIVE replaceInvalidRuns(_, _)
replaceInvalidRuns(value, inRun) ==
  IF Len(value) = 0 THEN << >>
  ELSE IF Head(value) \in LabelChars
       THEN << Head(value) >> \o replaceInvalidRuns(Tail(value), FALSE)
       ELSE IF inRun THEN replaceInvalidRuns(Tail(value), TRUE)
            ELSE << "-" >> \o replaceInvalidRuns(Tail(value), TRUE)

\* strings.Replace(value, "--", "-", -1): one pass from the left over the
\* non-overlapping occurrences of "--"
RECURSIVE replaceDoubleHyphens(_)
replaceDoubleHyphens(value) ==
  IF Len(value) < 2 THEN value
  ELSE IF value[1] = "-" /\ value[2] = "-"
       THEN << "-" >> \o replaceDoubleHyphens(SubSeq(value, 3, Len(value)))
       ELSE << value[1] >> \o replaceDoubleHyphens(Tail(value))

\* regexp `^[-_.]+` ReplaceAllString(value, "")
RECURSIVE trimLeadingSeparators(_)
trimLeadingSeparators(value) ==
  IF Len(value) > 0 /\ Head(value) \in SeparatorChars
  THEN trimLeadingSeparators(Tail(value))
  ELSE value

\* regexp `[-_.]+$` ReplaceAllString(value, "")
RECURSIVE trimTrailingSeparators(_)
trimTrailingSeparators(value) ==
  IF Len(value) > 0 /\ value[Len(value)] \in SeparatorChars
  THEN trimTrailingSeparators(SubSeq(value, 1, Len(value) - 1))
  ELSE value

\* faulty variant: the trailing separators are removed before the cut
sanitizeLabelTrimsBeforeCut(value) ==
  LET v1 == replaceInvalidRuns(value, FALSE)
      v2 == replaceDoubleHyphens(v1)
      v3 == trimLeadingSeparators(v2)
      v4 == trimTrailingSeparators(v3)
      v5 == IF Len(v4) > MaxLabelLength THEN SubSeq(v4, 1, MaxLabelLength) ELSE v4
  IN v5

(***************************************************************************)
(* func sanitizeLabel(value string) string                                 *)
(***************************************************************************)
sanitizeLabel(value) ==
  LET v1 == replaceInvalidRuns(value, FALSE)
      v2 == replaceDoubleHyphens(v1)
      v3 == trimLeadingSeparators(v2)
      v4 == IF Len(v3) > MaxLabelLength THEN SubSeq(v3, 1, MaxLabelLength) ELSE v3
      v5 == trimTrailingSeparators(v4)
  IN v5

(***************************************************************************)
(* func sanitizeLabels(labels map[string]string) map[string]string        *)
(* (a map[string]string that is never nil: a set of key/value pairs)       *)
(***************************************************************************)
sanitizeLabels(labels) == { << kv[1], sanitizeLabel(kv[2]) >> : kv \in labels }

(***************************************************************************)
(* The orders in which a range loop may visit the entries of a map.        *)
(***************************************************************************)
RangeOrders(pairs) ==
  { order \in [1..Cardinality(pairs) -> pairs] :
      \A i, j \in 1..Cardinality(pairs) : i # j => order[i] # order[j] }

(***************************************************************************)
(* json.Unmarshal of the paramsJSON flag into params: the custom properties *)
(* are                                                                     *)
(* a record that gives, for every field of Params, << >> when the key is   *)
(* absent from the JSON text and << value >> when it is present.  A field  *)
(* whose key is absent keeps its value; a map that is not nil is reused    *)
(* and receives the entries of the JSON object.                            *)
(***************************************************************************)
unmarshalField(current, property) ==
  IF property = << >> THEN current ELSE property[1]

unmarshalMap(current, property) ==
  IF property = << >> THEN current
  ELSE IF current.nil THEN MakeMap(property[1])
  ELSE MakeMap({ kv \in current.kv : \A n \in property[1] : n[1] # kv[1] }
               \cup property[1])

\* faulty variant: an empty memory or a zero timeout in the JSON text is skipped
UnmarshalSkipsEmpty(json, p) ==
  [ DryRun |-> unmarshalField(p.DryRun, json.DryRun),
    App |-> unmarshalField(p.App, json.App),
    Runtime |-> unmarshalField(p.Runtime, json.Runtime),
    Trigger |-> unmarshalField(p.Trigger, json.Trigger),
    TriggerValue |-> unmarshalField(p.TriggerValue, json.TriggerValue),
    Memory |-> IF json.Memory = <<"">> THEN p.Memory
               ELSE unmarshalField(p.Memory, json.Memory),
    ServiceAccount |-> unmarshalField(p.ServiceAccount, json.ServiceAccount),
    Source |-> unmarshalField(p.Source, json.Source),
    IngressSettings |-> unmarshalField(p.IngressSettings, json.IngressSettings),
    TimeoutSeconds |-> IF json.TimeoutSeconds = <<0>> THEN p.TimeoutSeconds
                       ELSE unmarshalField(p.TimeoutSeconds, json.TimeoutSeconds),
    EnvironmentVariables |->
      unmarshalMap(p.EnvironmentVariables, json.EnvironmentVariables) ]

Unmarshal(json, p) ==
  [ DryRun |-> unmarshalField(p.DryRun, json.DryRun),
    App |-> unmarshalField(p.App, json.App),
    Runtime |-> unmarshalField(p.Runtime, json.Runtime),
    Trigger |-> unmarshalField(p.Trigger, json.Trigger),
    TriggerValue |-> unmarshalField(p.TriggerValue, json.TriggerValue),
    Memory |-> unmarshalField(p.Memory, json.Memory),
    ServiceAccount |-> unmarshalField(p.ServiceAccount, json.ServiceAccount),
    Source |-> unmarshalField(p.Source, json.Source),
    IngressSettings |-> unmarshalField(p.IngressSettings, json.IngressSettings),
    TimeoutSeconds |-> unmarshalField(p.TimeoutSeconds, json.TimeoutSeconds),
    EnvironmentVariables |->
      unmarshalMap(p.EnvironmentVariables, json.EnvironmentVariables) ]

(***************************************************************************)
(* State.                                                                  *)
(*   pc       position of the running program: a step of func main, or     *)
(*            "test" while the methods of Params are called directly (as   *)
(*            params_test.go does)                                         *)
(*   params   the Params struct                                            *)
(*   pre      the value params had before the last method call             *)
(*   gitName, appLabel   the flags of main / the arguments of SetDefaults  *)
(*   valid, errors, warnings   the values ValidateRequiredProperties       *)
(*            returned last                                                *)
(*   lastCall the method of Params called last, calls the number of calls  *)
(*   paramsJSON   the custom properties of the pipeline stage              *)
(*   credential   the credential main looks up, with its Defaults pointer  *)
(*   estafetteLabels   the labels scraped from the environment             *)
(*   saClientEmail, arguments   locals of main                             *)
(*   effects  the external side effects so far: files written and          *)
(*            commands run, in order                                       *)
(*   log      the log entries written so far                               *)
(***************************************************************************)
VARIABLES pc, params, pre, gitName, appLabel, valid, errors, warnings,
          lastCall, calls, paramsJSON, credential, estafetteLabels,
          saClientEmail, arguments, effects, log

vars == << pc, params, pre, gitName, appLabel, valid, errors, warnings,
           lastCall, calls, paramsJSON, credential, estafetteLabels,
           saClientEmail, arguments, effects, log >>

\* what only func main uses
mainVars == << paramsJSON, credential, estafetteLabels, saClientEmail,
               arguments, effects, log >>

\* no custom property is given
NoProperties ==
  [ DryRun |-> << >>, App |-> << >>, Runtime |-> << >>, Trigger |-> << >>,
    TriggerValue |-> << >>, Memory |-> << >>, ServiceAccount |-> << >>,
    Source |-> << >>, IngressSettings |-> << >>, TimeoutSeconds |-> << >>,
    EnvironmentVariables |-> << >> ]

\* a credential: its Name and, of its AdditionalProperties, Defaults (a
\* pointer to a Params), Project and Region
Credential(defaultsNil, defaults) ==
  [ Name |-> "gke-dev-common",
    Defaults |-> [nil |-> defaultsNil, val |-> defaults],
    Project |-> "my-project", Region |-> "europe-west1" ]

(***************************************************************************)
(* Inputs of the direct calls.                                             *)
(***************************************************************************)
\* the values of one field: the empty one, every supported one, one that is not
RuntimeInputs == {"", "nodejs8", "nodejs10", "python37", "go111", "nodejs6"}
MemoryInputs == {"", "128MB", "256MB", "512MB", "1024MB", "2048MB", "64MB"}
TriggerInputs == {"", "http", "bucket", "topic"}
IngressSettingsInputs == {"", "all", "internal-only", "internal-and-gclb"}
TriggerValueInputs == {"", "my-bucket"}
AppInputs == {"", "yourapp"}
SourceInputs == {"", "src"}
TimeoutSweep == (0 - SweepMargin)..(MaxTimeoutSeconds + SweepMargin)

GitNames == {"", "mygitrepo"}
AppLabels == {"", "myapp"}
BuildVersions == {"", "1.0.0"}
ReleaseNames == {"", "production"}
ReleaseActions == {"", "deploy"}

\* validParams of params_test.go
validParams ==
  [ ZeroParams EXCEPT !.Runtime = "go111", !.Memory = "256MB", !.Trigger = "http",
                      !.Source = ".", !.IngressSettings = "all",
                      !.TimeoutSeconds = 60 ]

\* every combination of an empty, a supported and an unsupported value
CombinedInputs ==
  { [ ZeroParams EXCEPT !.App = a, !.Runtime = r, !.Trigger = t, !.TriggerValue = tv,
                        !.Memory = m, !.Source = s, !.IngressSettings = i,
                        !.TimeoutSeconds = n ] :
      a \in AppInputs, r \in {"", "go111", "nodejs6"}, t \in TriggerInputs,
      tv \in TriggerValueInputs, m \in {"", "128MB", "64MB"}, s \in SourceInputs,
      i \in {"", "internal-only", "internal-and-gclb"},
      n \in {0 - 1, 0, 540, 541} }

\* validParams with one field changed, as the tests build their inputs
OneFieldInputs ==
     { [validParams EXCEPT !.Runtime = r] : r \in RuntimeInputs }
  \cup { [validParams EXCEPT !.Memory = m] : m \in MemoryInputs }
  \cup { [validParams EXCEPT !.Trigger = t, !.TriggerValue = tv] :
           t \in TriggerInputs, tv \in TriggerValueInputs }
  \cup { [validParams EXCEPT !.IngressSettings = i] : i \in IngressSettingsInputs }
  \cup { [validParams EXCEPT !.TimeoutSeconds = n, !.Trigger = t, !.TriggerValue = "my-bucket"] :
           n \in TimeoutSweep, t \in {"http", "bucket"} }
  \cup { [validParams EXCEPT !.DryRun = TRUE, !.ServiceAccount = "sa@project.iam",
                             !.EnvironmentVariables = MakeMap({<<"MYENVVAR", "somevalue">>})] }

\* a ParameterSet that sets nothing but the runtime (the minimal manifest)
RuntimeOnlyInputs == { [ZeroParams EXCEPT !.Runtime = r] : r \in RuntimeInputs }

TestInputs == CombinedInputs \cup OneFieldInputs \cup RuntimeOnlyInputs

(***************************************************************************)
(* Direct calls of the two methods on a Params value (params_test.go).     *)
(***************************************************************************)
InitTest ==
  /\ pc = "test"
  /\ params \in TestInputs
  /\ pre = params
  /\ gitName = ""
  /\ appLabel = ""
  /\ valid = FALSE
  /\ errors = << >>
  /\ warnings = << >>
  /\ lastCall = "none"
  /\ calls = 0
  /\ paramsJSON = NoProperties
  /\ credential = Credential(TRUE, ZeroParams)
  /\ estafetteLabels = {}
  /\ saClientEmail = ""
  /\ arguments = << >>
  /\ effects = << >>
  /\ log = << >>

\* params.SetDefaults(gitName, appLabel, buildVersion, "", "", map[string]string{})
TestSetDefaults ==
  /\ pc = "test"
  /\ calls < MaxCalls
  /\ \E g \in GitNames, a \in AppLabels, b \in BuildVersions :
       /\ params' = SetDefaults(params, g, a, b, "", "", {})
       /\ gitName' = g
       /\ appLabel' = a
  /\ pre' = params
  /\ lastCall' = "SetDefaults"
  /\ calls' = calls + 1
  /\ UNCHANGED << pc, valid, errors, warnings >>
  /\ UNCHANGED mainVars

\* faulty variant: the validation clamps the timeout it reports on
TestValidateClampsTimeout ==
  /\ pc = "test"
  /\ calls < MaxCalls
  /\ LET r == ValidateRequiredProperties(params)
     IN /\ valid' = r[1]
        /\ errors' = r[2]
        /\ warnings' = r[3]
  /\ params' = IF params.TimeoutSeconds > MaxTimeoutSeconds
               THEN [params EXCEPT !.TimeoutSeconds = MaxTimeoutSeconds]
               ELSE params
  /\ pre' = params
  /\ lastCall' = "ValidateRequiredProperties"
  /\ calls' = calls + 1
  /\ UNCHANGED << pc, gitName, appLabel >>
  /\ UNCHANGED mainVars

\* valid, errors, warnings := params.ValidateRequiredProperties()
TestValidateRequiredProperties ==
  /\ pc = "test"
  /\ calls < MaxCalls
  /\ LET r == ValidateRequiredProperties(params)
     IN /\ valid' = r[1]
        /\ errors' = r[2]
        /\ warnings' = r[3]
  /\ pre' = params
  /\ lastCall' = "ValidateRequiredProperties"
  /\ calls' = calls + 1
  /\ UNCHANGED << pc, params, gitName, appLabel >>
  /\ UNCHANGED mainVars

NextTest == TestSetDefaults \/ TestValidateRequiredProperties

SpecTest == InitTest /\ [][NextTest]_vars

(***************************************************************************)
(* func main: inputs.                                                      *)
(***************************************************************************)
EnvFromPipeline == { <<"MYENVVAR", "somevalue">> }
EnvFromCredential == { <<"MYENVVAR", "default">>, <<"REGION", "eu">> }

\* combinations of the properties validation and the deployment look at
CombinedProperties ==
  { [ NoProperties EXCEPT !.Runtime = r, !.Trigger = t, !.TriggerValue = tv,
                          !.TimeoutSeconds = n, !.DryRun = d,
                          !.EnvironmentVariables = e ] :
      r \in { << >>, <<"go111">>, <<"nodejs6">> },
      t \in { << >>, <<"bucket">> },
      tv \in { << >>, <<"my-bucket">> },
      n \in { << >>, <<541>> },
      d \in { << >>, <<TRUE>> },
      e \in { << >>, <<EnvFromPipeline>> } }

\* the minimal manifest (only a runtime) with one more property
MinimalProperties == [ NoProperties EXCEPT !.Runtime = <<"go111">> ]

OnePropertyMore ==
     { [MinimalProperties EXCEPT !.App = <<"mycloudfunction">>],
       [MinimalProperties EXCEPT !.Source = <<"src">>],
       [MinimalProperties EXCEPT !.ServiceAccount = <<"fn@my-project.iam">>],
       [MinimalProperties EXCEPT !.DryRun = <<FALSE>>],
       [MinimalProperties EXCEPT !.Runtime = <<"">>] }
  \cup { [MinimalProperties EXCEPT !.Memory = m] :
           m \in { <<"">>, <<"512MB">>, <<"64MB">> } }
  \cup { [MinimalProperties EXCEPT !.IngressSettings = i] :
           i \in { <<"internal-only">>, <<"internal-and-gclb">> } }
  \cup { [MinimalProperties EXCEPT !.Trigger = t] : t \in { <<"http">>, <<"topic">> } }
  \cup { [MinimalProperties EXCEPT !.TimeoutSeconds = n] :
           n \in { <<0 - 1>>, <<0>>, <<540>> } }

PropertiesInputs == CombinedProperties \cup OnePropertyMore

CredentialInputs ==
  { Credential(TRUE, ZeroParams),
    Credential(FALSE, ZeroParams),
    Credential(FALSE, [ZeroParams EXCEPT !.Runtime = "nodejs10"]),
    Credential(FALSE, [ZeroParams EXCEPT !.Memory = "64MB",
                                         !.EnvironmentVariables = MakeMap({})]),
    Credential(FALSE,
      [ DryRun |-> TRUE, App |-> "credapp", Runtime |-> "python37",
        Trigger |-> "bucket", TriggerValue |-> "cred-bucket", Memory |-> "1024MB",
        ServiceAccount |-> "default@my-project.iam", Source |-> "functions",
        IngressSettings |-> "internal-only", TimeoutSeconds |-> 120,
        EnvironmentVariables |-> MakeMap(EnvFromCredential) ]) }

LabelsInputs ==
  { {},
    { <<"app", <<"m", "y", " ", "a", "p", "p">> >>,
      <<"team", <<"_", "o", "p", "s", "-", "-", "!">> >> } }

(***************************************************************************)
(* Log entries (zerolog): level, message and the error given to Err.       *)
(***************************************************************************)
Info(message) == [level |-> "info", message |-> message, error |-> ""]
Debug(message) == [level |-> "debug", message |-> message, error |-> ""]
Fatal(message, err) == [level |-> "fatal", message |-> message, error |-> err]

\* a run of the program starts
Init ==
  /\ pc = "main"
  /\ paramsJSON \in PropertiesInputs
  /\ credential \in CredentialInputs
  /\ gitName \in GitNames
  /\ appLabel \in AppLabels
  /\ estafetteLabels \in LabelsInputs
  /\ params = ZeroParams
  /\ pre = ZeroParams
  /\ valid = FALSE
  /\ errors = << >>
  /\ warnings = << >>
  /\ lastCall = "none"
  /\ calls = 0
  /\ saClientEmail = ""
  /\ arguments = << >>
  /\ effects = << >>
  /\ log = << >>

\* log.Fatal()...Msg(message) after the entries before: the entries are
\* written and the process exits
Exit(before, message, err) ==
  /\ pc' = "exited"
  /\ log' = log \o before \o << Fatal(message, err) >>

\* the credentials parameter is unmarshalled, defaulted and validated
mainCredentialsParam ==
  /\ pc = "main"
  /\ \/ /\ pc' = "getCredential"
        /\ log' = log \o << Info("Getting all estafette labels from envvars..."),
                           Info("Unmarshalling credentials parameter..."),
                           Info("Setting default for credential parameter..."),
                           Info("Validating required credential parameter...") >>
     \/ \* kingpin.Parse() rejects the command line
        /\ pc' = "exited"
        /\ UNCHANGED log
     \/ Exit(<< Info("Getting all estafette labels from envvars..."),
                Info("Unmarshalling credentials parameter...") >>,
             "Failed unmarshalling credential parameter", "json error")
     \/ Exit(<< Info("Getting all estafette labels from envvars..."),
                Info("Unmarshalling credentials parameter..."),
                Info("Setting default for credential parameter..."),
                Info("Validating required credential parameter...") >>,
             "Not all valid fields are set: [credentials errors]", "")
  /\ UNCHANGED << params, pre, gitName, appLabel, valid, errors, warnings, lastCall,
                  calls, paramsJSON, credential, estafetteLabels, saClientEmail,
                  arguments, effects >>

\* the injected credentials are unmarshalled and the named one is looked up
mainGetCredential ==
  /\ pc = "getCredential"
  /\ \/ /\ pc' = "credentialDefaults"
        /\ log' = log \o << Info("Unmarshalling injected credentials..."),
                           Info("Checking if credential " \o credential.Name
                                \o " exists...") >>
     \/ Exit(<< Info("Unmarshalling injected credentials...") >>,
             "Failed unmarshalling injected credentials", "json error")
     \/ Exit(<< Info("Unmarshalling injected credentials..."),
                Info("Checking if credential " \o credential.Name \o " exists...") >>,
             "Credential with name " \o credential.Name \o " does not exist.", "")
  /\ UNCHANGED << params, pre, gitName, appLabel, valid, errors, warnings, lastCall,
                  calls, paramsJSON, credential, estafetteLabels, saClientEmail,
                  arguments, effects >>

\* var params Params; if Defaults != nil { params = *Defaults }
mainCredentialDefaults ==
  /\ pc = "credentialDefaults"
  /\ IF ~credential.Defaults.nil
     THEN /\ params' = credential.Defaults.val
          /\ log' = Append(log, Info("Using defaults from credential "
                                     \o credential.Name \o "..."))
     ELSE /\ params' = ZeroParams
          /\ UNCHANGED log
  /\ pc' = "unmarshalParams"
  /\ UNCHANGED << pre, gitName, appLabel, valid, errors, warnings, lastCall, calls,
                  paramsJSON, credential, estafetteLabels, saClientEmail, arguments,
                  effects >>

\* err = json.Unmarshal([]byte(paramsJSON), &params).  The struct copy made
\* from the credential's defaults shares the defaults' map, so entries
\* unmarshalled into a map that is not nil land in the credential's map too.
mainUnmarshalParams ==
  /\ pc = "unmarshalParams"
  /\ \/ /\ params' = Unmarshal(paramsJSON, params)
        /\ credential' =
             IF ~credential.Defaults.nil /\ ~params.EnvironmentVariables.nil
             THEN [credential EXCEPT !.Defaults.val.EnvironmentVariables =
                                        params'.EnvironmentVariables]
             ELSE credential
        /\ pc' = "setDefaults"
        /\ log' = Append(log, Info("Unmarshalling parameters / custom properties..."))
     \/ /\ Exit(<< Info("Unmarshalling parameters / custom properties...") >>,
                "Failed unmarshalling parameters", "json error")
        /\ UNCHANGED << params, credential >>
  /\ UNCHANGED << pre, gitName, appLabel, valid, errors, warnings, lastCall, calls,
                  paramsJSON, estafetteLabels, saClientEmail, arguments, effects >>

\* params.SetDefaults(*gitName, *appLabel, *buildVersion, *releaseName,
\*                    *releaseAction, estafetteLabels)
mainSetDefaults ==
  /\ pc = "setDefaults"
  /\ \E buildVersion \in BuildVersions :
       params' = SetDefaults(params, gitName, appLabel, buildVersion, "", "",
                             estafetteLabels)
  /\ pre' = params
  /\ lastCall' = "SetDefaults"
  /\ calls' = calls + 1
  /\ log' = Append(log,
       Info("Setting defaults for parameters that are not set in the manifest..."))
  /\ pc' = "validate"
  /\ UNCHANGED << gitName, appLabel, valid, errors, warnings, paramsJSON, credential,
                  estafetteLabels, saClientEmail, arguments, effects >>

\* faulty variant: the result of the validation is ignored
mainAfterValidateIgnoresValid(ok, ws) ==
  /\ pc' = "serviceAccountEmail"
  /\ log' = log \o << Info("Validating required parameters...") >>
                \o [i \in 1..Len(ws) |-> Debug("Warning: " \o ws[i])]

\* faulty variant: a ParameterSet that passed is validated a second time
mainAfterValidateTwice(ok, ws) ==
  IF ~ok
  THEN /\ pc' = "exited"
       /\ log' = log \o << Info("Validating required parameters..."),
                          Fatal("Not all valid fields are set", "") >>
  ELSE /\ pc' = IF calls = 1 THEN "validate" ELSE "serviceAccountEmail"
       /\ log' = log \o << Info("Validating required parameters...") >>
                     \o [i \in 1..Len(ws) |-> Debug("Warning: " \o ws[i])]

\* if !valid { log.Fatal().Err(err).Msg("Not all valid fields are set") }
\* for _, warning := range warnings { log.Printf("Warning: %s", warning) }
mainAfterValidate(ok, ws) ==
  IF ~ok
  THEN /\ pc' = "exited"
       /\ log' = log \o << Info("Validating required parameters..."),
                          Fatal("Not all valid fields are set", "") >>
  ELSE /\ pc' = "serviceAccountEmail"
       /\ log' = log \o << Info("Validating required parameters...") >>
                     \o [i \in 1..Len(ws) |-> Debug("Warning: " \o ws[i])]

\* valid, errors, warnings := params.ValidateRequiredProperties()
mainValidate ==
  /\ pc = "validate"
  /\ LET r == ValidateRequiredProperties(params)
     IN /\ valid' = r[1]
        /\ errors' = r[2]
        /\ warnings' = r[3]
        /\ mainAfterValidate(r[1], r[3])
  /\ pre' = params
  /\ lastCall' = "ValidateRequiredProperties"
  /\ calls' = calls + 1
  /\ UNCHANGED << params, gitName, appLabel, paramsJSON, credential, estafetteLabels,
                  saClientEmail, arguments, effects >>

\* the service account keyfile of the credential is unmarshalled and its
\* client_email is read
mainServiceAccountEmail ==
  /\ pc = "serviceAccountEmail"
  /\ \/ /\ saClientEmail' = "deployer@my-project.iam.gserviceaccount.com"
        /\ pc' = "writeKeyFile"
        /\ log' = Append(log, Info("Retrieving service account email from credentials..."))
     \/ /\ Exit(<< Info("Retrieving service account email from credentials...") >>,
                "Failed unmarshalling service account keyfile", "json error")
        /\ UNCHANGED saClientEmail
     \/ /\ Exit(<< Info("Retrieving service account email from credentials...") >>,
                "Field client_email missing from service account keyfile", "")
        /\ UNCHANGED saClientEmail
     \/ /\ Exit(<< Info("Retrieving service account email from credentials...") >>,
                "Field client_email not of type string", "")
        /\ UNCHANGED saClientEmail
  /\ UNCHANGED << params, pre, gitName, appLabel, valid, errors, warnings, lastCall,
                  calls, paramsJSON, credential, estafetteLabels, arguments, effects >>

\* err = ioutil.WriteFile("/key-file.json", keyfile, 0600)
mainWriteKeyFile ==
  /\ pc = "writeKeyFile"
  /\ effects' = Append(effects, <<"WriteFile", "/key-file.json">>)
  /\ \/ /\ pc' = "auth"
        /\ log' = Append(log, Info("Storing gke credential " \o credential.Name
                                   \o " on disk..."))
     \/ Exit(<< Info("Storing gke credential " \o credential.Name \o " on disk...") >>,
             "Failed writing service account keyfile", "write error")
  /\ UNCHANGED << params, pre, gitName, appLabel, valid, errors, warnings, lastCall,
                  calls, paramsJSON, credential, estafetteLabels, saClientEmail,
                  arguments >>

\* foundation.RunCommandWithArgs(ctx, "gcloud", args): the command is run;
\* when it fails the process exits, otherwise main goes on at next
RunCommandWithArgs(message, args, next) ==
  /\ effects' = Append(effects, <<"gcloud">> \o args)
  /\ \/ /\ pc' = next
        /\ log' = Append(log, Info(message))
     \/ /\ pc' = "exited"
        /\ log' = log \o << Info(message), Fatal("command failed", "exit status") >>

mainGcloudAuth ==
  /\ pc = "auth"
  /\ RunCommandWithArgs("Authenticating to google cloud",
       <<"auth", "activate-service-account", saClientEmail, "--key-file",
         "/key-file.json">>, "setAccount")
  /\ UNCHANGED << params, pre, gitName, appLabel, valid, errors, warnings, lastCall,
                  calls, paramsJSON, credential, estafetteLabels, saClientEmail,
                  arguments >>

mainGcloudSetAccount ==
  /\ pc = "setAccount"
  /\ RunCommandWithArgs("Setting gcloud account",
       <<"config", "set", "account", saClientEmail>>, "setProject")
  /\ UNCHANGED << params, pre, gitName, appLabel, valid, errors, warnings, lastCall,
                  calls, paramsJSON, credential, estafetteLabels, saClientEmail,
                  arguments >>

mainGcloudSetProject ==
  /\ pc = "setProject"
  /\ RunCommandWithArgs("Setting gcloud project",
       <<"config", "set", "project", credential.Project>>, "setProjectAgain")
  /\ UNCHANGED << params, pre, gitName, appLabel, valid, errors, warnings, lastCall,
                  calls, paramsJSON, credential, estafetteLabels, saClientEmail,
                  arguments >>

\* the same command a second time
mainGcloudSetProjectAgain ==
  /\ pc = "setProjectAgain"
  /\ RunCommandWithArgs("Setting gcloud project",
       <<"config", "set", "project", credential.Project>>, "buildArguments")
  /\ UNCHANGED << params, pre, gitName, appLabel, valid, errors, warnings, lastCall,
                  calls, paramsJSON, credential, estafetteLabels, saClientEmail,
                  arguments >>

\* the argument list of gcloud functions deploy: the labels are sanitized,
\* labels and environment variables are joined in the order their maps are
\* ranged over
mainBuildArguments ==
  /\ pc = "buildArguments"
  /\ estafetteLabels' = sanitizeLabels(estafetteLabels)
  /\ \E labelOrder \in RangeOrders(sanitizeLabels(estafetteLabels)),
        envOrder \in RangeOrders(params.EnvironmentVariables.kv) :
       LET labelParams == [i \in 1..Len(labelOrder) |->
                             labelOrder[i][1] \o "=" \o StringOf(labelOrder[i][2])]
           envvarParams == [i \in 1..Len(envOrder) |->
                              envOrder[i][1] \o "=" \o envOrder[i][2]]
           a0 == << "functions", "deploy", params.App,
                    "--region", credential.Region,
                    "--memory", params.Memory,
                    "--source", params.Source,
                    "--timeout", FormatInt(params.TimeoutSeconds) \o "s",
                    "--runtime", params.Runtime,
                    "--update-labels", Join(labelParams, ","),
                    "--ingress-settings", params.IngressSettings >>
           a1 == IF Cardinality(params.EnvironmentVariables.kv) > 0
                 THEN a0 \o << "--set-env-vars", Join(envvarParams, ",") >>
                 ELSE a0
           a2 == IF params.ServiceAccount # ""
                 THEN a1 \o << "--service-account", params.ServiceAccount >>
                 ELSE a1
           a3 == IF params.Trigger = "bucket"
                 THEN a2 \o << "--trigger-bucket", params.TriggerValue >>
                 ELSE a2 \o << "--trigger-http" >>
       IN arguments' = a3
  /\ pc' = "deploy"
  /\ UNCHANGED << params, pre, gitName, appLabel, valid, errors, warnings, lastCall,
                  calls, paramsJSON, credential, saClientEmail, effects, log >>

\* if params.DryRun { the command is only logged }
mainDryRun ==
  /\ pc = "deploy"
  /\ params.DryRun
  /\ log' = log \o << Info("Dry run cloud function " \o params.App \o " deployment..."),
                     Info("gcloud [" \o Join(arguments, " ") \o "]") >>
  /\ pc' = "done"
  /\ UNCHANGED << params, pre, gitName, appLabel, valid, errors, warnings, lastCall,
                  calls, paramsJSON, credential, estafetteLabels, saClientEmail,
                  arguments, effects >>

\* faulty variant: the deployment does not look at the dry-run flag
mainDeployAlways ==
  /\ pc = "deploy"
  /\ RunCommandWithArgs("Deploying cloud function " \o params.App \o "...",
                        arguments, "describe")
  /\ UNCHANGED << params, pre, gitName, appLabel, valid, errors, warnings, lastCall,
                  calls, paramsJSON, credential, estafetteLabels, saClientEmail,
                  arguments >>

\* else { foundation.RunCommandWithArgs(ctx, "gcloud", arguments) ...
mainDeploy ==
  /\ pc = "deploy"
  /\ ~params.DryRun
  /\ RunCommandWithArgs("Deploying cloud function " \o params.App \o "...",
                        arguments, "describe")
  /\ UNCHANGED << params, pre, gitName, appLabel, valid, errors, warnings, lastCall,
                  calls, paramsJSON, credential, estafetteLabels, saClientEmail,
                  arguments >>

\* ... foundation.RunCommandWithArgs(ctx, "gcloud", describeArguments) }
mainDescribe ==
  /\ pc = "describe"
  /\ RunCommandWithArgs("Describing cloud function " \o params.App \o "...",
       << "functions", "describe", params.App, "--region", credential.Region >>,
       "done")
  /\ UNCHANGED << params, pre, gitName, appLabel, valid, errors, warnings, lastCall,
                  calls, paramsJSON, credential, estafetteLabels, saClientEmail,
                  arguments >>

Next ==
  \/ mainCredentialsParam
  \/ mainGetCredential
  \/ mainCredentialDefaults
  \/ mainUnmarshalParams
  \/ mainSetDefaults
  \/ mainValidate
  \/ mainServiceAccountEmail
  \/ mainWriteKeyFile
  \/ mainGcloudAuth
  \/ mainGcloudSetAccount
  \/ mainGcloudSetProject
  \/ mainGcloudSetProjectAgain
  \/ mainBuildArguments
  \/ mainDryRun
  \/ mainDeploy
  \/ mainDescribe

Spec == Init /\ [][Next]_vars

(***************************************************************************)
(* Direct calls of sanitizeLabels on a map of labels.  The values are a    *)
(* head, a run of alphanumerics long enough to reach the cut at 63         *)
(* characters, and every suffix over a small alphabet of an alphanumeric,  *)
(* the hyphen, another separator and a character outside the class.        *)
(***************************************************************************)
MaxSuffixLen == 4

LabelAlphabet == {"a", "-", "_", "!"}

Suffixes == UNION { [1..k -> LabelAlphabet] : k \in 0..MaxSuffixLen }

Fill(n) == [i \in 1..n |-> "a"]

FillLengths == {0, 1} \cup ((MaxLabelLength - 3)..MaxLabelLength)

LabelHeads == { << >>, <<"-">>, <<"!", "_">> }

LabelValueInputs ==
  { h \o Fill(n) \o t : h \in LabelHeads, n \in FillLengths, t \in Suffixes }

InitSanitize ==
  /\ pc = "sanitize"
  /\ estafetteLabels \in { { <<"app", v>> } : v \in LabelValueInputs } \cup LabelsInputs
  /\ pre = estafetteLabels
  /\ params = ZeroParams
  /\ gitName = ""
  /\ appLabel = ""
  /\ valid = FALSE
  /\ errors = << >>
  /\ warnings = << >>
  /\ lastCall = "none"
  /\ calls = 0
  /\ paramsJSON = NoProperties
  /\ credential = Credential(TRUE, ZeroParams)
  /\ saClientEmail = ""
  /\ arguments = << >>
  /\ effects = << >>
  /\ log = << >>

\* estafetteLabels = sanitizeLabels(estafetteLabels); pre keeps the map the
\* call was made on
TestSanitizeLabels ==
  /\ pc = "sanitize"
  /\ calls < MaxCalls
  /\ estafetteLabels' = sanitizeLabels(estafetteLabels)
  /\ pre' = estafetteLabels
  /\ lastCall' = "sanitizeLabels"
  /\ calls' = calls + 1
  /\ UNCHANGED << pc, params, gitName, appLabel, valid, errors, warnings, paramsJSON,
                  credential, saClientEmail, arguments, effects, log >>

NextSanitize == TestSanitizeLabels

SpecSanitize == InitSanitize /\ [][NextSanitize]_vars

(***************************************************************************)
(* Properties of a run of func main, checked under Spec.                   *)
(***************************************************************************)
\* C1: no external side effect (the key file write, any gcloud command)
\* happens before ValidateRequiredProperties has returned ok=true on the
\* resolved ParameterSet, and when it returned ok=false the run has exited
\* without any of those side effects.
C1_NoSideEffectBeforeValidation ==
  /\ Len(effects) > 0 =>
       (lastCall = "ValidateRequiredProperties" /\ valid /\ pre = params)
  /\ (lastCall = "ValidateRequiredProperties" /\ ~valid) =>
       (pc = "exited" /\ effects = << >>)

\* a run that passed validation, deployed and described the function
C1_Witness ==
  /\ pc = "done"
  /\ valid
  /\ Len(effects) = 7
  /\ effects[1] = <<"WriteFile", "/key-file.json">>
  /\ effects[6][2] = "functions" /\ effects[6][3] = "deploy"

\* C2: once the argument list of gcloud functions deploy is built (dry run
\* or not), the ParameterSet it was built from has a supported runtime,
\* memory, trigger and ingressSettings, 0 < timeoutSeconds <= 540 and a
\* non-empty triggerValue when the trigger is bucket, and the list carries
\* these values.
C2_DeploymentUsesValidParams ==
  Len(arguments) > 0 =>
    /\ params.Runtime \in {"nodejs8", "nodejs10", "python37", "go111"}
    /\ params.Memory \in {"128MB", "256MB", "512MB", "1024MB", "2048MB"}
    /\ params.Trigger \in {"http", "bucket"}
    /\ params.IngressSettings \in {"all", "internal-only"}
    /\ 0 < params.TimeoutSeconds /\ params.TimeoutSeconds <= 540
    /\ params.Trigger = "bucket" => params.TriggerValue # ""
    /\ arguments[7] = params.Memory
    /\ arguments[13] = params.Runtime
    /\ arguments[17] = params.IngressSettings
    /\ params.Trigger = "bucket" =>
         (/\ arguments[Len(arguments) - 1] = "--trigger-bucket"
          /\ arguments[Len(arguments)] # "")

\* the arguments of a bucket-triggered function at the upper timeout bound
C2_Witness ==
  /\ pc = "deploy"
  /\ Len(arguments) > 0
  /\ params.Trigger = "bucket"
  /\ arguments[Len(arguments)] = "my-bucket"
  /\ params.DryRun

(***************************************************************************)
(* Properties of ValidateRequiredProperties and SetDefaults, checked under *)
(* SpecTest.  The accepted sets and the six checks are written here as the *)
(* specification states them.                                              *)
(***************************************************************************)
RuntimeSet == {"nodejs8", "nodejs10", "python37", "go111"}
MemorySet == {"128MB", "256MB", "512MB", "1024MB", "2048MB"}
TriggerSet == {"http", "bucket"}
IngressSettingsSet == {"all", "internal-only"}

CheckNames == {"runtime", "memory", "trigger", "triggerValue", "timeout", "ingressSettings"}

CheckFails(c, p) ==
  CASE c = "runtime" -> p.Runtime \notin RuntimeSet
    [] c = "memory" -> p.Memory \notin MemorySet
    [] c = "trigger" -> p.Trigger \notin TriggerSet
    [] c = "triggerValue" -> p.Trigger = "bucket" /\ p.TriggerValue = ""
    [] c = "timeout" -> ~(0 < p.TimeoutSeconds /\ p.TimeoutSeconds <= 540)
    [] c = "ingressSettings" -> p.IngressSettings \notin IngressSettingsSet

FailingChecks(p) == { c \in CheckNames : CheckFails(c, p) }

\* every check other than the one named passes
OthersPass(c, p) == FailingChecks(p) \subseteq {c}

Validated == lastCall = "ValidateRequiredProperties"
Defaulted == lastCall = "SetDefaults"

Reported(msg) == \E i \in 1..Len(errors) : errors[i] = msg

RuntimeViolation(v) ==
  "Runtime " \o v \o " is not supported; set it to nodejs8, nodejs10, python37, go111"
MemoryViolation(v) ==
  "Memory " \o v \o " is not supported; set it to 128MB, 256MB, 512MB, 1024MB, 2048MB"
TriggerViolation(v) ==
  "Trigger " \o v \o " is not supported; set it to http, bucket"
IngressSettingsViolation(v) ==
  "IngressSettings " \o v \o " is not supported; set it to all, internal-only"
TriggerValueViolation ==
  "TriggerValue is required when Trigger is bucket; set TriggerValue as well"

\* C3: ValidateRequiredProperties does not short-circuit: the number of
\* violations it returns equals the number of its six checks that fail on
\* the ParameterSet it was called on.
C3_OneViolationPerFailingCheck ==
  Validated => Len(errors) = Cardinality(FailingChecks(pre))

\* five checks fail at once, the conditional triggerValue check among them
C3_Witness ==
  /\ Validated
  /\ FailingChecks(pre) = CheckNames \ {"trigger"}
  /\ Len(errors) = 5

\* C4: ValidateRequiredProperties returns a result for every ParameterSet
\* (the call is always possible and never raises), and in the result ok is
\* true exactly when the errors sequence is empty.
C4_OkIffNoErrors ==
  /\ (pc = "test" /\ calls < MaxCalls) => ENABLED TestValidateRequiredProperties
  /\ Validated => (valid \in BOOLEAN /\ (valid <=> errors = << >>))

\* the all-empty ParameterSet was validated and rejected
C4_Witness ==
  /\ Validated
  /\ pre = ZeroParams
  /\ ~valid
  /\ Len(errors) > 0

\* C5: for each enum field a violation for the field is reported if and
\* only if its value (the empty string included) is outside the field's
\* closed set; an unsupported runtime gives ok=false with violations, and
\* when every check passes the result is ok=true with zero errors.
C5_EnumFieldsChecked ==
  Validated =>
    /\ Reported(RuntimeViolation(pre.Runtime)) <=> pre.Runtime \notin RuntimeSet
    /\ Reported(MemoryViolation(pre.Memory)) <=> pre.Memory \notin MemorySet
    /\ Reported(TriggerViolation(pre.Trigger)) <=> pre.Trigger \notin TriggerSet
    /\ Reported(IngressSettingsViolation(pre.IngressSettings))
         <=> pre.IngressSettings \notin IngressSettingsSet
    /\ pre.Runtime \notin RuntimeSet => (~valid /\ Len(errors) > 0)
    /\ FailingChecks(pre) = {} => (valid /\ errors = << >>)

\* memory 64MB with every other field valid: one violation listing the five values
C5_Witness ==
  /\ Validated
  /\ pre = [validParams EXCEPT !.Memory = "64MB"]
  /\ ~valid
  /\ errors = << MemoryViolation("64MB") >>

\* C6: the TriggerValue violation is reported exactly when trigger = bucket
\* and triggerValue is empty; bucket with a non-empty triggerValue and all
\* other fields valid is ok with zero errors; with trigger = http the result
\* is the same for every triggerValue.
C6_TriggerValueRequiredIffBucket ==
  Validated =>
    /\ Reported(TriggerValueViolation)
         <=> (pre.Trigger = "bucket" /\ pre.TriggerValue = "")
    /\ (pre.Trigger = "bucket" /\ pre.TriggerValue # "" /\ OthersPass("triggerValue", pre))
         => (valid /\ errors = << >>)
    /\ pre.Trigger = "http" =>
         \A tv \in TriggerValueInputs :
           ValidateRequiredProperties([pre EXCEPT !.TriggerValue = tv])
             = << valid, errors, warnings >>

\* bucket trigger without a bucket name, everything else valid
C6_Witness ==
  /\ Validated
  /\ pre = [validParams EXCEPT !.Trigger = "bucket", !.TriggerValue = ""]
  /\ ~valid
  /\ errors = << TriggerValueViolation >>

\* C7: with all other fields valid, ok is true exactly for timeoutSeconds in
\* 1..540: 540 is accepted; 541, larger values, 0 and negative values are
\* rejected.
C7_TimeoutInterval ==
  (Validated /\ OthersPass("timeout", pre)) =>
    (valid <=> (1 <= pre.TimeoutSeconds /\ pre.TimeoutSeconds <= 540))

\* the inclusive upper bound: 540 is accepted
C7_Witness ==
  /\ Validated
  /\ OthersPass("timeout", pre)
  /\ pre.TimeoutSeconds = 540
  /\ valid

\* C8: SetDefaults resolves an empty appName as appLabel if that is
\* non-empty (whatever gitName is), else as gitName if that is non-empty,
\* else leaves it empty.
C8_AppNamePrecedence ==
  (Defaulted /\ pre.App = "") =>
    /\ appLabel # "" => params.App = appLabel
    /\ (appLabel = "" /\ gitName # "") => params.App = gitName
    /\ (appLabel = "" /\ gitName = "") => params.App = ""

\* both fallbacks are given and the app label wins
C8_Witness ==
  /\ Defaulted
  /\ pre.App = ""
  /\ appLabel = "myapp"
  /\ gitName = "mygitrepo"
  /\ params.App = "myapp"

\* C9: SetDefaults leaves appName, trigger, memory, source and
\* ingressSettings unchanged when they are non-empty (supported or not) and
\* timeoutSeconds unchanged when it is greater than 0 (also above 540).
C9_DefaultsKeepExplicitInput ==
  Defaulted =>
    /\ pre.App # "" => params.App = pre.App
    /\ pre.Trigger # "" => params.Trigger = pre.Trigger
    /\ pre.Memory # "" => params.Memory = pre.Memory
    /\ pre.Source # "" => params.Source = pre.Source
    /\ pre.IngressSettings # "" => params.IngressSettings = pre.IngressSettings
    /\ pre.TimeoutSeconds > 0 => params.TimeoutSeconds = pre.TimeoutSeconds

\* unsupported explicit values survive the defaults
C9_Witness ==
  /\ Defaulted
  /\ pre.App = "yourapp" /\ pre.Trigger = "topic" /\ pre.Memory = "64MB"
  /\ pre.Source = "src" /\ pre.IngressSettings = "internal-and-gclb"
  /\ pre.TimeoutSeconds = 541
  /\ appLabel = "myapp"
  /\ params = pre

\* C10: after SetDefaults every field that was empty holds its convention
\* default (http, 256MB, ".", all, and 60 for a timeout that was <= 0), so
\* none of the five fields is empty and timeoutSeconds >= 1.
C10_ConventionDefaults ==
  Defaulted =>
    /\ pre.Trigger = "" => params.Trigger = "http"
    /\ pre.Memory = "" => params.Memory = "256MB"
    /\ pre.Source = "" => params.Source = "."
    /\ pre.IngressSettings = "" => params.IngressSettings = "all"
    /\ pre.TimeoutSeconds <= 0 => params.TimeoutSeconds = 60
    /\ params.Trigger # "" /\ params.Memory # "" /\ params.Source # ""
    /\ params.IngressSettings # "" /\ params.TimeoutSeconds >= 1

\* the empty ParameterSet with a negative timeout gets every default
C10_Witness ==
  /\ Defaulted
  /\ pre = [ZeroParams EXCEPT !.TimeoutSeconds = 0 - 1]
  /\ gitName = "mygitrepo" /\ appLabel = ""
  /\ params = [ZeroParams EXCEPT !.App = "mygitrepo", !.Trigger = "http",
                                 !.Memory = "256MB", !.Source = ".",
                                 !.TimeoutSeconds = 60, !.IngressSettings = "all"]

\* C11: SetDefaults is idempotent: a call of SetDefaults made right after a
\* call of SetDefaults with the same gitName and appLabel leaves the
\* ParameterSet as the first call left it.
C11_SetDefaultsIdempotent ==
  [][ (TestSetDefaults /\ Defaulted /\ gitName' = gitName /\ appLabel' = appLabel)
        => params' = params ]_vars

\* the second of two calls with the same arguments: the first one turned the
\* empty ParameterSet into the defaults, the second one changed nothing
C11_Witness ==
  /\ Defaulted
  /\ calls = 2
  /\ gitName = "mygitrepo" /\ appLabel = ""
  /\ pre = [ZeroParams EXCEPT !.App = "mygitrepo", !.Trigger = "http",
                              !.Memory = "256MB", !.Source = ".",
                              !.TimeoutSeconds = 60, !.IngressSettings = "all"]
  /\ params = pre

\* the ParameterSet sets nothing but its runtime
RuntimeOnly(p) == p = [ZeroParams EXCEPT !.Runtime = p.Runtime]

\* C12: a ParameterSet that sets only a supported runtime passes
\* ValidateRequiredProperties with zero errors after SetDefaults, whatever
\* gitName and appLabel are; SetDefaults never sets the runtime, and a
\* ParameterSet with an empty runtime fails validation after SetDefaults.
C12_RuntimeOnlyManifestDeployable ==
  [][ /\ (TestValidateRequiredProperties /\ Defaulted /\ RuntimeOnly(pre)
            /\ pre.Runtime \in RuntimeSet)
        => (valid' /\ errors' = << >>)
      /\ (TestValidateRequiredProperties /\ Defaulted /\ pre.Runtime = "")
        => (~valid' /\ Reported(RuntimeViolation(""))')
      /\ TestSetDefaults => params'.Runtime = params.Runtime ]_vars

\* the minimal manifest with runtime nodejs8, defaulted and then validated
C12_Witness ==
  /\ Validated
  /\ calls = 2
  /\ gitName = "mygitrepo" /\ appLabel = ""
  /\ pre = [ZeroParams EXCEPT !.Runtime = "nodejs8", !.App = "mygitrepo",
                              !.Trigger = "http", !.Memory = "256MB",
                              !.Source = ".", !.TimeoutSeconds = 60,
                              !.IngressSettings = "all"]
  /\ valid
  /\ errors = << >>

(***************************************************************************)
(* Properties of the resolution and the deployment in func main, checked   *)
(* under Spec.                                                             *)
(***************************************************************************)
\* the fields the three layers are resolved for
LayeredFields == {"App", "Runtime", "Trigger", "TriggerValue", "Memory",
                  "ServiceAccount", "Source", "IngressSettings", "TimeoutSeconds"}

\* SetDefaults has run in main: params is the resolved ParameterSet
Resolved == pc \notin {"main", "getCredential", "credentialDefaults",
                       "unmarshalParams", "setDefaults"} /\ lastCall # "none"

IsEmptyValue(f, v) == IF f = "TimeoutSeconds" THEN v <= 0 ELSE v = ""

CredentialDefault(f) ==
  IF credential.Defaults.nil THEN ZeroParams[f] ELSE credential.Defaults.val[f]

ConventionDefault(f) ==
  CASE f = "App" -> IF appLabel # "" THEN appLabel ELSE gitName
    [] f = "Trigger" -> "http"
    [] f = "Memory" -> "256MB"
    [] f = "Source" -> "."
    [] f = "IngressSettings" -> "all"
    [] f = "TimeoutSeconds" -> 60
    [] OTHER -> ""

\* the layering as the claim words it: a layer counts when its value is non-empty
LayeredByNonEmpty(f) ==
  IF paramsJSON[f] # << >> /\ ~IsEmptyValue(f, paramsJSON[f][1]) THEN paramsJSON[f][1]
  ELSE IF ~IsEmptyValue(f, CredentialDefault(f)) THEN CredentialDefault(f)
  ELSE ConventionDefault(f)

\* the layering by presence: a property the pipeline supplies replaces the
\* credential default whatever its value, and an empty outcome is defaulted
LayeredByPresence(f) ==
  LET overlaid == IF paramsJSON[f] # << >> THEN paramsJSON[f][1]
                  ELSE CredentialDefault(f)
  IN IF IsEmptyValue(f, overlaid) THEN ConventionDefault(f) ELSE overlaid

\* C13 as claimed: each resolved field is the pipeline value when that is
\* non-empty, otherwise the credential default when that is non-empty,
\* otherwise the convention default.
C13_LayeredByNonEmptyValue ==
  Resolved => \A f \in LayeredFields : params[f] = LayeredByNonEmpty(f)

\* C13 (amended): each resolved field is the pipeline value whenever the
\* pipeline supplies the property, an empty or zero value included,
\* otherwise the credential default; a value so obtained that is empty
\* (timeoutSeconds <= 0) is replaced by the convention default where the
\* field has one.
C13_LayeredByPresence ==
  Resolved => \A f \in LayeredFields : params[f] = LayeredByPresence(f)

\* the pipeline gives memory as "", the credential defaults it to 1024MB,
\* and the resolved memory is the convention default
C13_Witness ==
  /\ Resolved
  /\ paramsJSON.Memory = <<"">>
  /\ CredentialDefault("Memory") = "1024MB"
  /\ params.Memory = "256MB"
  /\ params.Runtime = "go111"
  /\ params.TimeoutSeconds = 120

\* C14: no step of a run changes the credential: every field of its
\* Defaults, the environmentVariables mapping included, keeps the value it
\* had before the run.
C14_CredentialNeverMutated ==
  [][credential' = credential]_vars

\* the side effect is a run of gcloud functions deploy / describe
IsDeploy(e) == Len(e) >= 3 /\ e[1] = "gcloud" /\ e[2] = "functions" /\ e[3] = "deploy"
IsDescribe(e) == Len(e) >= 3 /\ e[1] = "gcloud" /\ e[2] = "functions" /\ e[3] = "describe"

Deployed == \E i \in 1..Len(effects) : IsDeploy(effects[i])

\* with dryRun true nothing is deployed or described and a finished run
\* ends with the report of the command; describe comes right after deploy
DryRunOnlyReports ==
  /\ (Resolved /\ params.DryRun) =>
       \A i \in 1..Len(effects) : ~IsDeploy(effects[i]) /\ ~IsDescribe(effects[i])
  /\ (pc = "done" /\ params.DryRun) =>
       log[Len(log)] = Info("gcloud [" \o Join(arguments, " ") \o "]")
  /\ \A j \in 1..Len(effects) :
       IsDescribe(effects[j]) => (j > 1 /\ IsDeploy(effects[j - 1]))

\* C15 as claimed: with dryRun true the run only reports the command, and
\* every run that passed validation with dryRun false has invoked the deploy
\* command by the time it ends.
C15_DeployWheneverValid ==
  /\ DryRunOnlyReports
  /\ (pc \in {"done", "exited"} /\ Validated /\ valid /\ ~params.DryRun) => Deployed

\* C15 (amended): with dryRun true the run only reports the command; with
\* dryRun false a run that has reached the deployment step (the key file
\* and the gcloud auth and config commands succeeded) invokes the deploy
\* command, and describe is invoked only right after it.
C15_DeployWhenStepReached ==
  /\ DryRunOnlyReports
  /\ (Len(arguments) > 0 /\ pc # "deploy" /\ ~params.DryRun) => Deployed

\* a finished dry run: the key file and the four auth/config commands, then
\* the report
C15_Witness ==
  /\ pc = "done"
  /\ params.DryRun
  /\ Len(effects) = 5
  /\ log[Len(log)].message = "gcloud [" \o Join(arguments, " ") \o "]"

\* the texts a log entry can carry a list of violations as: the messages
\* joined by a separator, bare or in brackets (fmt's %v of a slice), alone
\* or after the message of the abort
ViolationRenderings(errs) ==
  { prefix \o bracket[1] \o Join(errs, sep) \o bracket[2] :
      prefix \in {"", "Not all valid fields are set: "},
      bracket \in { <<"", "">>, <<"[", "]">> },
      sep \in {" ", ", ", "; "} }

\* C16: when validation fails, the fatal log entry the run aborts with
\* carries every violation ValidateRequiredProperties returned.
C16_AbortSurfacesAllViolations ==
  (pc = "exited" /\ Validated /\ ~valid) =>
    /\ log[Len(log)].level = "fatal"
    /\ \/ log[Len(log)].message \in ViolationRenderings(errors)
       \/ log[Len(log)].error \in ViolationRenderings(errors)

\* C17: for every ParameterSet ValidateRequiredProperties returns an empty
\* warnings sequence: no violation of a failing check is placed in warnings,
\* and ok is decided by the errors sequence alone (it is true exactly when
\* that sequence has no entry, whatever the warnings are).
C17_WarningsAlwaysEmpty ==
  Validated =>
    /\ Len(warnings) = 0
    /\ valid = (Len(errors) = 0)
    /\ FailingChecks(pre) # {} => ~valid

\* a ParameterSet failing only the ingress check: the violation is an error
C17_Witness ==
  /\ Validated
  /\ pre = [validParams EXCEPT !.IngressSettings = "internal-and-gclb"]
  /\ warnings = << >>
  /\ errors = << IngressSettingsViolation("internal-and-gclb") >>
  /\ ~valid

\* C18: ValidateRequiredProperties gives two ParameterSets that differ only
\* in App (the empty App included) the same result, and a run in which the
\* pipeline, the credential, the app label and the git name all leave App
\* empty keeps it empty through SetDefaults and passes it on, empty, as the
\* function name of the deploy arguments.
C18_AppNotValidated ==
  /\ Validated =>
       \A a \in AppInputs :
         ValidateRequiredProperties([pre EXCEPT !.App = a]) = << valid, errors, warnings >>
  /\ ( /\ Resolved
       /\ gitName = "" /\ appLabel = ""
       /\ paramsJSON.App = << >>
       /\ CredentialDefault("App") = "" ) =>
       /\ params.App = ""
       /\ Validated => valid = (FailingChecks(params) = {})
       /\ Len(arguments) > 0 => (valid /\ arguments[3] = "")

\* a valid run with no name for the function reached the deployment step
C18_Witness ==
  /\ pc = "deploy"
  /\ gitName = "" /\ appLabel = ""
  /\ valid
  /\ params.App = ""
  /\ arguments[1] = "functions" /\ arguments[2] = "deploy" /\ arguments[3] = ""

\* the log messages of the four passes over the ParameterSet, in the order
\* of the lifecycle
PhaseMessages ==
  << "Using defaults from credential " \o credential.Name \o "...",
     "Unmarshalling parameters / custom properties...",
     "Setting defaults for parameters that are not set in the manifest...",
     "Validating required parameters..." >>

PhaseOf(entry) ==
  { k \in 1..Len(PhaseMessages) : PhaseMessages[k] = entry.message }

\* the passes were logged in lifecycle order, none of them twice
PhasesInOrder ==
  \A i, j \in 1..Len(log) :
    i < j => \A a \in PhaseOf(log[i]), b \in PhaseOf(log[j]) : a < b

Deployments == { i \in 1..Len(effects) : IsDeploy(effects[i]) }

\* C19: in every run the passes over the ParameterSet happen once and in
\* order (credential defaults, explicit overrides, SetDefaults, then
\* ValidateRequiredProperties), SetDefaults and ValidateRequiredProperties
\* are each called once, a ParameterSet that failed validation is never
\* deployed and one that passed is handed to at most one deploy command,
\* and once validated the ParameterSet and the validation result never
\* change.
C19_LifecycleOnceInOrder ==
  /\ [] /\ PhasesInOrder
        /\ calls <= 2
        /\ (calls = 0) = (lastCall = "none")
        /\ (calls = 1) = Defaulted
        /\ (calls = 2) = Validated
        /\ pc = "unmarshalParams" =>
             params = IF credential.Defaults.nil THEN ZeroParams
                      ELSE credential.Defaults.val
        /\ pc = "setDefaults" => lastCall = "none"
        /\ Defaulted => pc = "validate"
        /\ Validated => pc \notin {"main", "getCredential", "credentialDefaults",
                                   "unmarshalParams", "setDefaults", "validate"}
        /\ (Validated /\ ~valid) => (pc = "exited" /\ Len(arguments) = 0)
        /\ Cardinality(Deployments) <= 1
        /\ Deployments # {} =>
             /\ Validated /\ valid
             /\ effects[CHOOSE i \in Deployments : TRUE][4] = params.App
  /\ [][ Validated => /\ params' = params
                      /\ lastCall' = lastCall /\ calls' = calls
                      /\ valid' = valid /\ errors' = errors
                      /\ warnings' = warnings ]_vars

\* a run went through the whole lifecycle and deployed its ParameterSet once
C19_Witness ==
  /\ pc = "done"
  /\ ~credential.Defaults.nil
  /\ calls = 2 /\ Validated /\ valid
  /\ Cardinality(Deployments) = 1
  /\ \E i \in 1..Len(log) : log[i].message = PhaseMessages[1]

TimeoutViolation(v) ==
  "Timeout " \o v \o " is not supported; set it between 0 and 540 seconds"

CheckOrder ==
  << "runtime", "memory", "trigger", "triggerValue", "timeout", "ingressSettings" >>

\* msg is the violation the check named c reports for p
IsViolationOf(c, msg, p) ==
  CASE c = "runtime" -> msg = RuntimeViolation(p.Runtime)
    [] c = "memory" -> msg = MemoryViolation(p.Memory)
    [] c = "trigger" -> msg = TriggerViolation(p.Trigger)
    [] c = "triggerValue" -> msg = TriggerValueViolation
    [] c = "timeout" -> \/ msg = TimeoutViolation(p.Memory)
                        \/ msg = TimeoutViolation(FormatInt(p.TimeoutSeconds))
    [] c = "ingressSettings" -> msg = IngressSettingsViolation(p.IngressSettings)

FailingInOrder(p) == SelectSeq(CheckOrder, LAMBDA c : CheckFails(c, p))

\* C20: the violations ValidateRequiredProperties returns are, entry by
\* entry, those of the failing checks taken in the order runtime, memory,
\* trigger, triggerValue, timeout, ingressSettings, and no two entries of the
\* sequence are equal.
C20_ViolationsInCheckOrder ==
  Validated =>
    /\ Len(errors) = Len(FailingInOrder(pre))
    /\ \A i \in 1..Len(errors) : IsViolationOf(FailingInOrder(pre)[i], errors[i], pre)
    /\ \A i, j \in 1..Len(errors) : errors[i] = errors[j] => i = j

\* runtime, timeout and ingress settings fail: three violations in that order
C20_Witness ==
  /\ Validated
  /\ FailingInOrder(pre) = << "runtime", "timeout", "ingressSettings" >>
  /\ errors[1] = RuntimeViolation("nodejs6")
  /\ errors[3] = IngressSettingsViolation("internal-and-gclb")

\* the timeouts of the sweep that the timeout check rejects
OutOfRangeTimeouts ==
  { n \in TimeoutSweep : n <= 0 \/ n > MaxTimeoutSeconds }

\* the entry the timeout check contributes to the violations of p (for a p
\* whose timeout check fails)
TimeoutEntry(p) ==
  LET order == FailingInOrder(p)
      i == CHOOSE k \in 1..Len(order) : order[k] = "timeout"
  IN ValidateRequiredProperties(p)[2][i]

\* C21: the value the timeout violation reports is the memory field, not the
\* timeout: with the memory kept, every out-of-range timeout gives the same
\* timeout violation, and with the out-of-range timeout kept, every other
\* memory value gives a different one.
C21_TimeoutViolationReportsMemory ==
  (Validated /\ CheckFails("timeout", pre)) =>
    /\ Reported(TimeoutViolation(pre.Memory))
    /\ \A n \in OutOfRangeTimeouts :
         TimeoutEntry([pre EXCEPT !.TimeoutSeconds = n]) = TimeoutEntry(pre)
    /\ \A m \in MemoryInputs :
         m # pre.Memory => TimeoutEntry([pre EXCEPT !.Memory = m]) # TimeoutEntry(pre)

\* a timeout above the sweep's upper bound with 256MB of memory is reported
\* as "Timeout 256MB ..."
C21_Witness ==
  /\ Validated
  /\ pre.TimeoutSeconds = MaxTimeoutSeconds + SweepMargin
  /\ pre.Memory = "256MB"
  /\ errors = << TimeoutViolation("256MB") >>
  /\ errors # << TimeoutViolation(FormatInt(pre.TimeoutSeconds)) >>

C23_SetDefaultsFrame ==
  Defaulted =>
    /\ params.DryRun = pre.DryRun
    /\ params.Runtime = pre.Runtime
    /\ params.TriggerValue = pre.TriggerValue
    /\ params.ServiceAccount = pre.ServiceAccount
    /\ params.EnvironmentVariables = pre.EnvironmentVariables
    /\ \A b \in BuildVersions, rn \in ReleaseNames, ra \in ReleaseActions,
          l \in LabelsInputs :
         SetDefaults(pre, gitName, appLabel, b, rn, ra, l) = params

\* defaults were applied to a ParameterSet whose frame fields are all set
C23_Witness ==
  /\ Defaulted
  /\ pre.DryRun /\ pre.ServiceAccount = "sa@project.iam"
  /\ pre.EnvironmentVariables = MakeMap({<<"MYENVVAR", "somevalue">>})
  /\ params = [pre EXCEPT !.App = "myapp"]

Sanitized == lastCall = "sanitizeLabels"

\* the label values GCP accepts: at most 63 characters of the class
\* [a-zA-Z0-9-_.], empty or with an alphanumeric first and last
ValidLabel(v) ==
  /\ Len(v) <= 63
  /\ \A i \in 1..Len(v) : v[i] \in AlphanumericChars \cup {"-", "_", "."}
  /\ Len(v) = 0 \/ (v[1] \in AlphanumericChars /\ v[Len(v)] \in AlphanumericChars)

\* C24: whatever the value of a label is, sanitizeLabel returns a valid
\* label for it: at most 63 characters, all of them alphanumerics, '-', '_'
\* or '.', and either none at all or an alphanumeric first and last.
C24_SanitizedLabelIsValid ==
  Sanitized =>
    /\ estafetteLabels = { << kv[1], sanitizeLabel(kv[2]) >> : kv \in pre }
    /\ \A kv \in estafetteLabels : ValidLabel(kv[2])

\* a value of 67 characters whose 63rd character after the leading trim is a
\* hyphen is cut and then trimmed to 62 characters
C24_Witness ==
  /\ Sanitized
  /\ calls = 1
  /\ pre = { <<"app", <<"-">> \o Fill(62) \o <<"-", "a", "a", "!">> >> }
  /\ estafetteLabels = { <<"app", Fill(62)>> }

HasDoubleHyphen(v) == \E i \in 1..(Len(v) - 1) : v[i] = "-" /\ v[i + 1] = "-"

\* C25: the value sanitizeLabel returns never has two hyphens in a row, and
\* sanitizeLabel applied to a value it returned gives that value back.
C25_NoConsecutiveHyphens ==
  Sanitized =>
    \A kv \in estafetteLabels :
      /\ ~HasDoubleHyphen(kv[2])
      /\ sanitizeLabel(kv[2]) = kv[2]

====
